---- MODULE Spec2Model ----
(***************************************************************************)
(* A model of cache-lite: the Cache manager (src/src/cache.rs), the        *)
(* CacheObject handle (src/src/object.rs) and the part of the filesystem   *)
(* they touch.  Text (names, templates, paths) is a sequence of            *)
(* one-character strings; the build is the non-Windows one                 *)
(* (cfg!(windows) is false, MAIN_SEPARATOR is "/").                        *)
(***************************************************************************)
EXTENDS Integers, Sequences, FiniteSets, TLC

VARIABLES
    config,     \* Cache.config
    objects,    \* Cache.objects : name -> CacheObject
    next_id,    \* Cache.next_id : u32
    files,      \* the filesystem: path of a regular file -> its content
    dirs,       \* the filesystem: the directories create_dir_all has made
    roDirs,     \* the filesystem: directories without write permission
    issued,     \* history: the objects create has returned, in order
    last        \* observation: the most recent call and what it returned

vars == <<config, objects, next_id, files, dirs, roDirs, issued, last>>

----------------------------------------------------------------------------
(* Bounds of the model *)

\* create is not called any more once next_id has passed MaxId
MaxId == 2

(* Program constants *)

\* name.len() > 255
MaxNameLen == 255

----------------------------------------------------------------------------
(* Text *)

\* str::contains(pat)
Contains(s, pat) ==
    \E i \in 1..(Len(s) - Len(pat) + 1) : SubSeq(s, i, i + Len(pat) - 1) = pat

\* a replace that stops after the first match (str::replacen(pat, rep, 1))
ReplaceFirst(s, pat, rep) ==
    LET M == {i \in 1..(Len(s) - Len(pat) + 1) :
                 SubSeq(s, i, i + Len(pat) - 1) = pat}
    IN  IF Len(pat) = 0 \/ M = {} THEN s
        ELSE LET i == CHOOSE i \in M : \A j \in M : i <= j
             IN  SubSeq(s, 1, i - 1) \o rep \o SubSeq(s, i + Len(pat), Len(s))

\* str::replace(pat, rep): every non-overlapping match, left to right
RECURSIVE Replace(_, _, _)
Replace(s, pat, rep) ==
    LET M == {i \in 1..(Len(s) - Len(pat) + 1) :
                 SubSeq(s, i, i + Len(pat) - 1) = pat}
    IN  IF Len(pat) = 0 \/ M = {} THEN s
        ELSE LET i == CHOOSE i \in M : \A j \in M : i <= j
             IN  SubSeq(s, 1, i - 1) \o rep
                     \o Replace(SubSeq(s, i + Len(pat), Len(s)), pat, rep)

\* characters that take two bytes in UTF-8
TwoByteChars == {"e_acute"}

\* str::len(): the length in bytes
ByteLen(s) == Len(s) + Cardinality({i \in DOMAIN s : s[i] \in TwoByteChars})

Digits == <<"0", "1", "2", "3", "4", "5", "6", "7", "8", "9">>

\* u32::to_string().  A u32 from 2^31 on is held as the negative integer with
\* the same 32 bits (see Increment): its value is q + 2^31 with q the low 31
\* bits, and 2^31 = 214748364 * 10 + 8
RECURSIVE ToDecimal(_)
ToDecimal(n) ==
    IF n < 0
    THEN LET q == (n + 2147483647) + 1
             d == (q % 10) + 8
         IN  ToDecimal((q \div 10) + 214748364 + (d \div 10))
                 \o <<Digits[(d % 10) + 1]>>
    ELSE IF n < 10 THEN <<Digits[n + 1]>>
    ELSE ToDecimal(n \div 10) \o <<Digits[(n % 10) + 1]>>

\* time_format: the format's %s specifier becomes the timestamp, every
\* other character of the format is kept
time_format(time, format) == Replace(format, <<"%", "s">>, ToDecimal(time))

----------------------------------------------------------------------------
(* Paths *)

None == [some |-> FALSE, v |-> <<>>]
Some(x) == [some |-> TRUE, v |-> x]

\* the index of the last "/" of a path, 0 when there is none
LastSlash(p) ==
    LET S == {i \in 1..Len(p) : p[i] = "/"}
    IN  IF S = {} THEN 0 ELSE CHOOSE i \in S : \A j \in S : j <= i

\* Path::parent
Parent(p) ==
    LET i == LastSlash(p)
    IN  IF p = <<>> \/ p = <<"/">> THEN None
        ELSE IF i = 0 THEN Some(<<>>)
        ELSE IF i = 1 THEN Some(<<"/">>)
        ELSE Some(SubSeq(p, 1, i - 1))

\* PathBuf::join
Join(base, rel) ==
    IF rel # <<>> /\ Head(rel) = "/" THEN rel
    ELSE IF base = <<>> THEN rel
    ELSE IF base[Len(base)] = "/" THEN base \o rel
    ELSE base \o <<"/">> \o rel

\* what dirs::home_dir() returns in this environment
HomeDir == Some(<<"/", "h">>)

\* Cache::expand_path: only the tilde is expanded on this build
expand_path(path, home) ==
    IF path # <<>> /\ Head(path) = "~" /\ home.some
    THEN home.v \o Tail(path)
    ELSE path

----------------------------------------------------------------------------
(* Configuration *)

NameTok == <<"{", "n", "a", "m", "e", "}">>
IdTok == <<"{", "i", "d", "}">>
TimeTok == <<"{", "t", "i", "m", "e", "}">>

Fields == {"windows", "linux", "filename", "time"}

\* CacheConfig, flattened: path.windows, path.linux, format.filename, format.time
CacheConfig(w, l, f, t) == [windows |-> w, linux |-> l, filename |-> f, time |-> t]

\* the configurations the caller passes to Cache::new and to set_config
CfgA == CacheConfig(<<"W">>, <<"/", "t">>, NameTok \o <<".", "c">>, <<"%", "s">>)
CfgB == CacheConfig(<<"V">>, <<"/", "u">>, <<"k">> \o IdTok, <<"T", "%", "s">>)
Configs == {CfgA, CfgB}

\* A JSON text: whether it is well-formed JSON, which of the four fields it
\* holds, and their values
Json(syntax, has, cfg) == [syntax |-> syntax, has |-> has, cfg |-> cfg]

\* a parse that never fails: whatever it could read of the text is the value
from_str_lenient(text) == [ok |-> TRUE, v |-> text.cfg]

\* serde_json::from_str::<CacheConfig>: no field has a default, so a text
\* that lacks one of them is an error like a text that is not JSON
from_str(text) ==
    IF text.syntax /\ text.has = Fields
    THEN [ok |-> TRUE, v |-> text.cfg]
    ELSE [ok |-> FALSE, v |-> text.cfg]

Empty == CacheConfig(<<>>, <<>>, <<>>, <<>>)

\* the override texts the caller passes to create
JsonBroken == Json(FALSE, {}, Empty)
JsonPartial == Json(TRUE, {"filename"}, CacheConfig(<<>>, <<>>, <<"z">>, <<>>))
JsonEmpty == Json(TRUE, Fields, Empty)
JsonNoDir == Json(TRUE, Fields, CacheConfig(<<>>, <<"/", "x">>, <<>>, <<>>))
Overrides == {None, Some(JsonBroken), Some(JsonPartial), Some(JsonEmpty),
              Some(JsonNoDir)}

\* a merge in which the override, once parsed, is the configuration
MergeAll(base, custom) == custom

\* Cache::create, the merge of the override into the base configuration
Merge(base, custom) ==
    CacheConfig(
        IF custom.windows # <<>> THEN custom.windows ELSE base.windows,
        IF custom.linux # <<>> THEN custom.linux ELSE base.linux,
        IF custom.filename # <<>> THEN custom.filename ELSE base.filename,
        IF custom.time # <<>> THEN custom.time ELSE base.time)

\* Cache::create, the file name from the template
Filename(cfg, name, id, time) ==
    Replace(Replace(Replace(cfg.filename, NameTok, name),
                    IdTok, ToDecimal(id)),
            TimeTok, time_format(time, cfg.time))

----------------------------------------------------------------------------
(* Names *)

\* a validation that looks at the length only
validate_length(name) ==
    IF ByteLen(name) > MaxNameLen THEN "invalid_name" ELSE "ok"

\* validate_name of cache.rs, the one create calls
validate_name(name) ==
    IF name = <<>> THEN "invalid_name"
    ELSE IF Contains(name, <<".", ".">>) \/ Contains(name, <<"/">>)
            \/ Contains(name, <<"\\">>) THEN "invalid_name"
    ELSE IF ByteLen(name) > MaxNameLen THEN "invalid_name"
    ELSE "ok"

\* the names the caller passes
Names == {<<"a">>, <<"b">>, <<>>, <<"a", "/", "b">>}

----------------------------------------------------------------------------
(* Cache objects and the filesystem *)

\* CacheObject::new
CacheObject(name, path, id, created_at) ==
    [name |-> name, path |-> path, id |-> id, created_at |-> created_at]

NoObject == CacheObject(<<>>, <<>>, 0, 0)

\* what SystemTime::now() may return (the system clock is not monotonic)
Times == {0}

\* file contents the caller writes
Contents == {<<7, 8>>}

\* directories of a read-only part of the tree: none can be made there
UncreatableDirs == {<<"/", "x">>}

\* std::fs::create_dir_all(dir) succeeds
RECURSIVE CanCreateDirAll(_, _, _, _)
CanCreateDirAll(dir, fs, ds, ro) ==
    IF dir = <<>> \/ dir \in ds THEN TRUE
    ELSE IF dir \in DOMAIN fs \/ dir \in UncreatableDirs THEN FALSE
    ELSE LET up == Parent(dir)
         IN  IF ~up.some THEN TRUE
             ELSE up.v \notin ro /\ CanCreateDirAll(up.v, fs, ds, ro)

\* the directory of a file, for the permission to unlink or to create in it
DirOf(path) == Parent(path).v

\* std::fs::remove_file(path) succeeds on an existing file
CanRemoveFile(path, ro) == DirOf(path) \notin ro

\* a delete without the test of path.exists(): remove_file on an absent file
\* is an error
delete_strict(obj, fs, ro) ==
    IF obj.path \in DOMAIN fs /\ CanRemoveFile(obj.path, ro)
    THEN [kind |-> "ok", files |-> [p \in DOMAIN fs \ {obj.path} |-> fs[p]]]
    ELSE [kind |-> "io", files |-> fs]

\* CacheObject::delete: the result and the files afterwards
delete(obj, fs, ro) ==
    IF obj.path \in DOMAIN fs
    THEN IF CanRemoveFile(obj.path, ro)
         THEN [kind |-> "ok", files |-> [p \in DOMAIN fs \ {obj.path} |-> fs[p]]]
         ELSE [kind |-> "io", files |-> fs]
    ELSE [kind |-> "ok", files |-> fs]

\* a write that opens the file as get_file does, without truncating it: what
\* the file held beyond the new content stays
write_no_truncate(obj, content, fs, ds, ro) ==
    IF obj.path \in ds \/ DirOf(obj.path) \notin ds
       \/ (obj.path \notin DOMAIN fs /\ DirOf(obj.path) \in ro)
    THEN [kind |-> "io", files |-> fs]
    ELSE [kind |-> "ok",
          files |-> [p \in DOMAIN fs \cup {obj.path} |->
                        IF p # obj.path THEN fs[p]
                        ELSE IF p \in DOMAIN fs
                             THEN content \o SubSeq(fs[p], Len(content) + 1, Len(fs[p]))
                             ELSE content]]

\* a write that opens the file for append: the content goes after what the
\* file holds
write_append(obj, content, fs, ds, ro) ==
    IF obj.path \in ds \/ DirOf(obj.path) \notin ds
       \/ (obj.path \notin DOMAIN fs /\ DirOf(obj.path) \in ro)
    THEN [kind |-> "io", files |-> fs]
    ELSE [kind |-> "ok",
          files |-> [p \in DOMAIN fs \cup {obj.path} |->
                        IF p # obj.path THEN fs[p]
                        ELSE IF p \in DOMAIN fs THEN fs[p] \o content
                             ELSE content]]

\* std::fs::write(path, content): create or truncate
write(obj, content, fs, ds, ro) ==
    IF obj.path \in ds \/ DirOf(obj.path) \notin ds
       \/ (obj.path \notin DOMAIN fs /\ DirOf(obj.path) \in ro)
    THEN [kind |-> "io", files |-> fs]
    ELSE [kind |-> "ok",
          files |-> [p \in DOMAIN fs \cup {obj.path} |->
                        IF p = obj.path THEN content ELSE fs[p]]]

----------------------------------------------------------------------------
(* The registry *)

\* a clone that does not copy the id
CloneNoId(obj) == [obj EXCEPT !.id = 0]

\* a clone that gets a backing file of its own
clone_own_file(obj) == [obj EXCEPT !.path = obj.path \o <<"2">>]

\* impl Clone for CacheObject
clone(obj) == [name |-> obj.name, path |-> obj.path, id |-> obj.id,
               created_at |-> obj.created_at]

\* dropping an object deletes its file
DropDeletes(obj, fs, ro) == delete(obj, fs, ro).files

\* A CacheObject that goes out of scope: the type has no Drop, the files stay
DropObject(obj, fs, ro) == fs

\* an insert that keeps the entry a name already has
InsertKeep(objs, name, obj) ==
    [k \in DOMAIN objs \cup {name} |-> IF k \in DOMAIN objs THEN objs[k] ELSE obj]

\* HashMap::insert
insert(objs, name, obj) ==
    [k \in DOMAIN objs \cup {name} |-> IF k = name THEN obj ELSE objs[k]]

\* HashMap::remove
Without(objs, name) == [k \in DOMAIN objs \ {name} |-> objs[k]]

\* a counter that stays where it is
NoIncrement(n) == n

\* next_id += 1 on a u32.  A u32 v is held as the integer with the same 32
\* bits: v below 2^31, v - 2^32 from there on, so that u32::MAX is -1 and the
\* wrapping sum of the release build is the plain sum
Increment(n) == n + 1

\* What a call returned: the operation, its name argument, whether it had an
\* override argument, the kind of the result ("ok" or CacheError::kind()), the
\* object returned, the names whose files clear could not delete.  And what
\* the call met and did: whether the name was registered and how many objects
\* were, and the files that are gone after it.
Ret(op, name, over, kind, obj, errs) ==
    [op |-> op, name |-> name, over |-> over, kind |-> kind, obj |-> obj,
     errs |-> errs,
     was |-> name \in DOMAIN objects, len |-> Cardinality(DOMAIN objects),
     gone |-> DOMAIN files \ DOMAIN files']

----------------------------------------------------------------------------
(* Cache::create *)

\* the path create builds from the merged configuration
FullPath(merged, name, id, home, time) ==
    Join(expand_path(merged.linux, home), Filename(merged, name, id, time))

\* the directories create_dir_all makes for a path
RECURSIVE Ancestors(_)
Ancestors(dir) ==
    IF dir = <<>> \/ dir = <<"/">> THEN {}
    ELSE {dir} \cup (IF Parent(dir).some THEN Ancestors(Parent(dir).v) ELSE {})

\* a create that parses the override before it checks the name
create_override_first(name, custom, home, time) ==
    IF custom.some /\ ~from_str(custom.v).ok
    THEN /\ UNCHANGED <<config, objects, next_id, files, dirs, roDirs, issued>>
         /\ last' = Ret("create", name, custom.some, "config_parse", NoObject, <<>>)
    ELSE IF validate_name(name) # "ok"
    THEN /\ UNCHANGED <<config, objects, next_id, files, dirs, roDirs, issued>>
         /\ last' = Ret("create", name, custom.some, "invalid_name", NoObject, <<>>)
    ELSE
      LET id == next_id
          parsed == IF custom.some THEN from_str(custom.v)
                    ELSE [ok |-> TRUE, v |-> Empty]
          merged == IF custom.some THEN Merge(config, parsed.v) ELSE config
          full_path == FullPath(merged, name, id, home, time)
          parent == Parent(full_path)
          cache_object == CacheObject(name, full_path, id, time)
      IN  /\ next_id <= MaxId
          /\ next_id' = Increment(next_id)
          /\ UNCHANGED <<config, roDirs>>
          /\ IF ~parsed.ok
             THEN /\ UNCHANGED <<objects, files, dirs, issued>>
                  /\ last' = Ret("create", name, custom.some, "config_parse",
                                 NoObject, <<>>)
             ELSE IF parent.some /\ ~CanCreateDirAll(parent.v, files, dirs, roDirs)
             THEN /\ UNCHANGED <<objects, files, dirs, issued>>
                  /\ last' = Ret("create", name, custom.some, "invalid_path",
                                 NoObject, <<>>)
             ELSE /\ dirs' = dirs \cup (IF parent.some THEN Ancestors(parent.v) ELSE {})
                  /\ objects' = insert(objects, name, clone(cache_object))
                  /\ files' = IF name \in DOMAIN objects
                              THEN DropObject(objects[name], files, roDirs)
                              ELSE files
                  /\ issued' = Append(issued, cache_object)
                  /\ last' = Ret("create", name, custom.some, "ok", cache_object, <<>>)

\* a create that keeps the merged configuration as the manager's
create_keeps_override(name, custom, home, time) ==
    IF validate_name(name) # "ok"
    THEN /\ UNCHANGED <<config, objects, next_id, files, dirs, roDirs, issued>>
         /\ last' = Ret("create", name, custom.some, "invalid_name", NoObject, <<>>)
    ELSE
      LET id == next_id
          parsed == IF custom.some THEN from_str(custom.v)
                    ELSE [ok |-> TRUE, v |-> Empty]
          merged == IF custom.some THEN Merge(config, parsed.v) ELSE config
          full_path == FullPath(merged, name, id, home, time)
          parent == Parent(full_path)
          cache_object == CacheObject(name, full_path, id, time)
      IN  /\ next_id <= MaxId
          /\ next_id' = Increment(next_id)
          /\ config' = (IF parsed.ok THEN merged ELSE config)
          /\ UNCHANGED roDirs
          /\ IF ~parsed.ok
             THEN /\ UNCHANGED <<objects, files, dirs, issued>>
                  /\ last' = Ret("create", name, custom.some, "config_parse",
                                 NoObject, <<>>)
             ELSE IF parent.some /\ ~CanCreateDirAll(parent.v, files, dirs, roDirs)
             THEN /\ UNCHANGED <<objects, files, dirs, issued>>
                  /\ last' = Ret("create", name, custom.some, "invalid_path",
                                 NoObject, <<>>)
             ELSE /\ dirs' = dirs \cup (IF parent.some THEN Ancestors(parent.v) ELSE {})
                  /\ objects' = insert(objects, name, clone(cache_object))
                  /\ files' = IF name \in DOMAIN objects
                              THEN DropObject(objects[name], files, roDirs)
                              ELSE files
                  /\ issued' = Append(issued, cache_object)
                  /\ last' = Ret("create", name, custom.some, "ok", cache_object, <<>>)

\* create(name, custom_config); home is what dirs::home_dir() returns and
\* time what SystemTime::now() returns
create(name, custom, home, time) ==
    IF validate_name(name) # "ok"
    THEN /\ UNCHANGED <<config, objects, next_id, files, dirs, roDirs, issued>>
         /\ last' = Ret("create", name, custom.some, "invalid_name", NoObject, <<>>)
    ELSE
      LET id == next_id
          parsed == IF custom.some THEN from_str(custom.v)
                    ELSE [ok |-> TRUE, v |-> Empty]
          merged == IF custom.some THEN Merge(config, parsed.v) ELSE config
          full_path == FullPath(merged, name, id, home, time)
          parent == Parent(full_path)
          cache_object == CacheObject(name, full_path, id, time)
      IN  /\ next_id <= MaxId
          /\ next_id' = Increment(next_id)
          /\ UNCHANGED <<config, roDirs>>
          /\ IF ~parsed.ok
             THEN /\ UNCHANGED <<objects, files, dirs, issued>>
                  /\ last' = Ret("create", name, custom.some, "config_parse",
                                 NoObject, <<>>)
             ELSE IF parent.some /\ ~CanCreateDirAll(parent.v, files, dirs, roDirs)
             THEN /\ UNCHANGED <<objects, files, dirs, issued>>
                  /\ last' = Ret("create", name, custom.some, "invalid_path",
                                 NoObject, <<>>)
             ELSE /\ dirs' = dirs \cup (IF parent.some THEN Ancestors(parent.v) ELSE {})
                  /\ objects' = insert(objects, name, clone(cache_object))
                  /\ files' = IF name \in DOMAIN objects
                              THEN DropObject(objects[name], files, roDirs)
                              ELSE files
                  /\ issued' = Append(issued, cache_object)
                  /\ last' = Ret("create", name, custom.some, "ok", cache_object, <<>>)

(* Cache::get *)

\* a lookup that answers a missing name with an empty object
LookupOrDefault(objs, name) ==
    IF name \in DOMAIN objs
    THEN [kind |-> "ok", obj |-> clone(objs[name])]
    ELSE [kind |-> "ok", obj |-> NoObject]

\* HashMap::get(name).cloned().ok_or_else(NotFound)
Lookup(objs, name) ==
    IF name \in DOMAIN objs
    THEN [kind |-> "ok", obj |-> clone(objs[name])]
    ELSE [kind |-> "not_found", obj |-> NoObject]

get(name) ==
    /\ UNCHANGED <<config, objects, next_id, files, dirs, roDirs, issued>>
    /\ last' = Ret("get", name, FALSE, Lookup(objects, name).kind,
                   Lookup(objects, name).obj, <<>>)

(* Cache::remove *)

\* a remove that keeps the entry when the file could not be deleted
RemovedIfDeleted(objs, name, kind) ==
    IF kind = "ok" THEN Without(objs, name) ELSE objs

\* the registry after remove(name) on a registered name: the entry is taken
\* out before its file is deleted, whatever delete then returns
Removed(objs, name, kind) == Without(objs, name)

\* a remove that answers NotFound for a name that is not registered
remove_or_not_found(name) ==
    IF name \in DOMAIN objects
    THEN LET d == delete(objects[name], files, roDirs)
         IN  /\ objects' = Removed(objects, name, d.kind)
             /\ files' = d.files
             /\ UNCHANGED <<config, next_id, dirs, roDirs, issued>>
             /\ last' = Ret("remove", name, FALSE, d.kind, NoObject, <<>>)
    ELSE /\ UNCHANGED <<config, objects, next_id, files, dirs, roDirs, issued>>
         /\ last' = Ret("remove", name, FALSE, "not_found", NoObject, <<>>)

remove(name) ==
    IF name \in DOMAIN objects
    THEN LET d == delete(objects[name], files, roDirs)
         IN  /\ objects' = Removed(objects, name, d.kind)
             /\ files' = d.files
             /\ UNCHANGED <<config, next_id, dirs, roDirs, issued>>
             /\ last' = Ret("remove", name, FALSE, d.kind, NoObject, <<>>)
    ELSE /\ UNCHANGED <<config, objects, next_id, files, dirs, roDirs, issued>>
         /\ last' = Ret("remove", name, FALSE, "ok", NoObject, <<>>)

(* Cache::clear *)

\* a loop that stops at the first delete that fails
RECURSIVE ClearLoopAbort(_, _, _, _)
ClearLoopAbort(order, objs, fs, ro) ==
    IF order = <<>> THEN [files |-> fs, errs |-> <<>>]
    ELSE LET d == delete(objs[Head(order)], fs, ro)
         IN  IF d.kind = "ok" THEN ClearLoopAbort(Tail(order), objs, d.files, ro)
             ELSE [files |-> fs, errs |-> <<Head(order)>>]

\* the loop of clear over the objects in the order the map yields them:
\* the files afterwards and the names whose delete failed
RECURSIVE ClearLoop(_, _, _, _)
ClearLoop(order, objs, fs, ro) ==
    IF order = <<>> THEN [files |-> fs, errs |-> <<>>]
    ELSE LET d == delete(objs[Head(order)], fs, ro)
             rest == ClearLoop(Tail(order), objs, d.files, ro)
         IN  [files |-> rest.files,
              errs |-> IF d.kind = "ok" THEN rest.errs
                       ELSE <<Head(order)>> \o rest.errs]

\* the orders in which a HashMap may yield its keys
Orders(S) ==
    {o \in [1..Cardinality(S) -> S] : \A i, j \in DOMAIN o : i # j => o[i] # o[j]}

\* a clear that returns the error before it empties the registry
ClearedIfOk(objs, errs) == IF errs = <<>> THEN [k \in {} |-> NoObject] ELSE objs

\* the registry after the loop of clear: objects.clear(), errors or not
Cleared(objs, errs) == [k \in {} |-> NoObject]

clear ==
    \E order \in Orders(DOMAIN objects) :
        LET r == ClearLoop(order, objects, files, roDirs)
        IN  /\ files' = r.files
            /\ objects' = Cleared(objects, r.errs)
            /\ UNCHANGED <<config, next_id, dirs, roDirs, issued>>
            /\ last' = Ret("clear", <<>>, FALSE,
                           IF r.errs # <<>> THEN "generic" ELSE "ok",
                           NoObject, r.errs)

(* Cache::set_config *)

\* a set_config that builds the paths of the registered objects anew, from
\* the new configuration
set_config_repath(c) ==
    /\ config' = c
    /\ objects' = [k \in DOMAIN objects |->
                      [objects[k] EXCEPT !.path =
                          FullPath(c, k, objects[k].id, HomeDir, objects[k].created_at)]]
    /\ UNCHANGED <<next_id, files, dirs, roDirs, issued>>
    /\ last' = Ret("set_config", <<>>, FALSE, "ok", NoObject, <<>>)

set_config(c) ==
    /\ config' = c
    /\ UNCHANGED <<objects, next_id, files, dirs, roDirs, issued>>
    /\ last' = Ret("set_config", <<>>, FALSE, "ok", NoObject, <<>>)

----------------------------------------------------------------------------
(* The caller's handles *)

\* the objects the caller holds: every one create has returned
Handles == {issued[i] : i \in DOMAIN issued}

\* CacheObject::write_string / write_bytes
write_string(h, content) ==
    LET w == write(h, content, files, dirs, roDirs)
    IN  /\ files' = w.files
        /\ UNCHANGED <<config, objects, next_id, dirs, roDirs, issued>>
        /\ last' = Ret("write", h.name, FALSE, w.kind, h, <<>>)

\* CacheObject::delete
call_delete(h) ==
    LET d == delete(h, files, roDirs)
    IN  /\ files' = d.files
        /\ UNCHANGED <<config, objects, next_id, dirs, roDirs, issued>>
        /\ last' = Ret("delete", h.name, FALSE, d.kind, h, <<>>)

----------------------------------------------------------------------------
(* The environment *)

\* another process removes a file
EnvRemoveFile(p) ==
    /\ CanRemoveFile(p, roDirs)
    /\ files' = [q \in DOMAIN files \ {p} |-> files[q]]
    /\ UNCHANGED <<config, objects, next_id, dirs, roDirs, issued>>
    /\ last' = Ret("outside", <<>>, FALSE, "ok", NoObject, <<>>)

\* the write permission of a directory is taken away or given back
EnvChmod(d) ==
    /\ roDirs' = IF d \in roDirs THEN roDirs \ {d} ELSE roDirs \cup {d}
    /\ UNCHANGED <<config, objects, next_id, files, dirs, issued>>
    /\ last' = Ret("outside", <<>>, FALSE, "ok", NoObject, <<>>)

----------------------------------------------------------------------------
(* Cache::new(config) *)

Init ==
    /\ config \in Configs
    /\ objects = [k \in {} |-> NoObject]
    /\ next_id = 1
    /\ files = [p \in {} |-> <<>>]
    /\ dirs = {}
    /\ roDirs = {}
    /\ issued = <<>>
    /\ last = [op |-> "new", name |-> <<>>, over |-> FALSE, kind |-> "ok",
               obj |-> NoObject, errs |-> <<>>, was |-> FALSE, len |-> 0,
               gone |-> {}]

Next ==
    \/ \E name \in Names, custom \in Overrides, time \in Times :
          create(name, custom, HomeDir, time)
    \/ \E name \in Names : get(name)
    \/ \E name \in Names : remove(name)
    \/ clear
    \/ \E c \in Configs : set_config(c)
    \/ \E h \in Handles, content \in Contents : write_string(h, content)
    \/ \E h \in Handles : call_delete(h)
    \/ \E p \in DOMAIN files : EnvRemoveFile(p)
    \/ \E d \in dirs : EnvChmod(d)

Spec == Init /\ [][Next]_vars

----------------------------------------------------------------------------
(* Properties *)

\* the object the most recent successful create(x) returned
Latest(x) ==
    LET I == {i \in DOMAIN issued : issued[i].name = x}
    IN  issued[CHOOSE i \in I : \A j \in I : j <= i]

Registered == DOMAIN objects

\* C1: the first successful create returns id 1, and every later successful
\* create returns an id greater than every id returned before it, whatever
\* was removed or cleared in between.
C1_FirstIdOneThenIncreasing ==
    /\ issued # <<>> => issued[1].id = 1
    /\ \A i, j \in DOMAIN issued : i < j => issued[i].id < issued[j].id

\* C2: the counter advances on a successful create only: it is one more than
\* the number of objects returned so far, and the ids returned are 1, 2, 3,
\* ... without a gap.
C2_CounterCountsSuccesses ==
    /\ next_id = Len(issued) + 1
    /\ \A i \in DOMAIN issued : issued[i].id = i

\* C3 as stated: a create on a name that is registered fails with
\* AlreadyExists and leaves the registry as it was.
C3_DuplicateRejected ==
    [][(last'.op = "create" /\ last'.was)
          => (last'.kind = "already_exists" /\ objects' = objects)]_vars

\* C3 as amended: a create on a name that is registered never fails with
\* AlreadyExists.  It ends like any other create: with success, and then the
\* registry holds the object returned under that name; or with ConfigParse or
\* InvalidPath, and then the registry is as it was.
C3_DuplicateOverwrites ==
    [][(last'.op = "create" /\ last'.was)
          => /\ last'.kind \in {"ok", "config_parse", "invalid_path"}
             /\ last'.kind = "ok" =>
                    /\ last'.name \in DOMAIN objects'
                    /\ objects'[last'.name] = last'.obj
             /\ last'.kind # "ok" => objects' = objects]_vars

C3_Witness ==
    /\ last.op = "create" /\ last.was /\ last.over /\ last.kind = "ok"
    /\ objects[last.name] = last.obj
    /\ \E i \in DOMAIN issued : issued[i].name = last.name /\ issued[i] # last.obj

\* C4: a create without override on a name that is registered (the directory
\* being there to be made) succeeds, puts the new object, with a new id,
\* in the place of the entry of that name, leaves the other entries and the
\* number of entries as they were, and deletes no file: the file of the entry
\* it replaced stays.
C4_DuplicateReplacesEntryKeepsFile ==
    [][(last'.op = "create" /\ last'.was /\ ~last'.over
            /\ last'.kind # "invalid_path")
          => /\ last'.kind = "ok"
             /\ DOMAIN objects' = DOMAIN objects
             /\ Cardinality(DOMAIN objects') = last'.len
             /\ objects'[last'.name] = last'.obj
             /\ last'.obj.id = next_id
             /\ last'.obj.id # objects[last'.name].id
             /\ \A k \in DOMAIN objects \ {last'.name} : objects'[k] = objects[k]
             /\ files' = files]_vars

C4_Witness ==
    /\ last.op = "create" /\ last.was /\ ~last.over /\ last.kind = "ok"
    /\ last.len = Cardinality(Registered)
    /\ \E h \in Handles :
          /\ h.name = last.name /\ h.id < last.obj.id
          /\ h.path # last.obj.path
          /\ h.path \in DOMAIN files
          /\ \A k \in Registered : objects[k].path # h.path

\* C5: as long as x is registered, get(x) succeeds and returns an object of
\* name x with the id and the path of the object the most recent successful
\* create(x) returned.
C5_GetReturnsLatestCreate ==
    /\ \A x \in Registered :
          LET r == Lookup(objects, x)
          IN  /\ r.kind = "ok"
              /\ r.obj.name = x
              /\ r.obj.id = Latest(x).id
              /\ r.obj.path = Latest(x).path
    /\ (last.op = "get" /\ last.was) =>
          /\ last.kind = "ok"
          /\ last.obj.name = last.name
          /\ last.obj.id = Latest(last.name).id
          /\ last.obj.path = Latest(last.name).path

C5_Witness ==
    /\ last.op = "get" /\ last.was /\ last.kind = "ok"
    /\ Cardinality({i \in DOMAIN issued : issued[i].name = last.name}) >= 2
    /\ last.obj.id = issued[Len(issued)].id

\* C6: get of a name that is not registered fails with NotFound and changes
\* neither the registry nor the id counter.
C6_GetMissingIsNotFound ==
    [][(last'.op = "get" /\ ~last'.was)
          => /\ last'.kind = "not_found"
             /\ objects' = objects
             /\ next_id' = next_id]_vars

C6_Witness ==
    /\ last.op = "get" /\ ~last.was /\ last.kind = "not_found"
    /\ \E i \in DOMAIN issued : issued[i].name = last.name
    /\ Registered # {}

\* C7: remove never returns an error: not when the file of the entry could
\* not be deleted either.
C7_RemoveNeverFails == last.op = "remove" => last.kind = "ok"

\* C8: after remove(name) on a registered name the name is not registered
\* (get fails), there is one entry less and the other entries are as they
\* were, whether the file could be deleted or not.
C8_RemoveTakesEntryOut ==
    [][(last'.op = "remove" /\ last'.was)
          => /\ last'.name \notin DOMAIN objects'
             /\ Lookup(objects', last'.name).kind = "not_found"
             /\ Cardinality(DOMAIN objects') = Cardinality(DOMAIN objects) - 1
             /\ \A k \in DOMAIN objects \ {last'.name} :
                   k \in DOMAIN objects' /\ objects'[k] = objects[k]]_vars

C8_Witness ==
    /\ last.op = "remove" /\ last.was /\ last.kind = "io"
    /\ last.name \notin Registered
    /\ Registered # {}
    /\ \E h \in Handles : h.name = last.name /\ h.path \in DOMAIN files

\* C9: when clear has returned, with success or with an error, the registry
\* is empty.
C9_ClearEmptiesRegistry ==
    last.op = "clear" => (Registered = {} /\ Cardinality(Registered) = 0)

C9_Witness ==
    /\ last.op = "clear" /\ last.kind = "generic" /\ last.len >= 1
    /\ Registered = {}

C11_FileExistsAfterCreate ==
    (last.op = "create" /\ last.kind = "ok") => last.obj.path \in DOMAIN files

\* an override that is not JSON at all
Malformed(custom) == custom.some /\ ~custom.v.syntax

\* C13: create with a valid name and an override that is not parseable fails
\* with ConfigParse and the registry is as it was before the call.
C13_MalformedOverrideIsConfigParse ==
    [][(last'.op = "create" /\ last'.over /\ validate_name(last'.name) = "ok")
          => \A custom \in {c \in Overrides : Malformed(c)}, time \in Times :
                create(last'.name, custom, HomeDir, time)
                => (last'.kind = "config_parse" /\ objects' = objects)]_vars

C13_Witness ==
    /\ last.op = "create" /\ last.over /\ last.kind = "config_parse"
    /\ last.name \notin Registered
    /\ Registered # {}
    /\ next_id = Len(issued) + 2

----------------------------------------------------------------------------
(* The merge of an override: create with every combination of empty and     *)
(* non-empty override fields                                                 *)

\* the configuration of the manager: the time shows in the file name
CfgM == CacheConfig(<<"W">>, <<"/", "t">>, NameTok \o <<".">> \o TimeTok,
                    <<"%", "s">>)

\* the value an override gives to each field when it gives one
CfgO == CacheConfig(<<"X">>, <<"/", "v">>, <<"m">> \o TimeTok, <<"U", "%", "s">>)

\* the overrides: each field either empty or the value of CfgO
MergeOverrides ==
    {CacheConfig(IF "windows" \in S THEN CfgO.windows ELSE <<>>,
                 IF "linux" \in S THEN CfgO.linux ELSE <<>>,
                 IF "filename" \in S THEN CfgO.filename ELSE <<>>,
                 IF "time" \in S THEN CfgO.time ELSE <<>>) : S \in SUBSET Fields}

MergeNames == {<<"a">>, <<"b">>}

\* Cache::new(c) on an empty filesystem
CacheNew(c) ==
    /\ config = c
    /\ objects = [k \in {} |-> NoObject]
    /\ next_id = 1
    /\ files = [p \in {} |-> <<>>]
    /\ dirs = {}
    /\ roDirs = {}
    /\ issued = <<>>
    /\ last = [op |-> "new", name |-> <<>>, over |-> FALSE, kind |-> "ok",
               obj |-> NoObject, errs |-> <<>>, was |-> FALSE, len |-> 0,
               gone |-> {}]

\* Cache::new(CfgM)
InitMerge == CacheNew(CfgM)

NextMerge ==
    \E name \in MergeNames, custom \in MergeOverrides, time \in Times :
        create(name, Some(Json(TRUE, Fields, custom)), HomeDir, time)

SpecMerge == InitMerge /\ [][NextMerge]_vars

\* the value of one field after the merge, as the claim has it
Pick(over, base) == IF over # <<>> THEN over ELSE base

\* C12: for each of the four fields, the configuration create builds the path
\* from has the override's value when that is not empty and the manager's
\* value when it is, each field on its own: the path returned is the one built
\* from the fields picked that way.
C12_MergeFieldByField ==
    [][\A name \in MergeNames, custom \in MergeOverrides, time \in Times :
          create(name, Some(Json(TRUE, Fields, custom)), HomeDir, time)
          => LET used == Merge(config, custom)
                 want == CacheConfig(Pick(custom.windows, config.windows),
                                     Pick(custom.linux, config.linux),
                                     Pick(custom.filename, config.filename),
                                     Pick(custom.time, config.time))
             IN  /\ used = want
                 /\ last'.kind = "ok"
                 /\ last'.obj.path = FullPath(want, name, next_id, HomeDir, time)
                 /\ Parent(last'.obj.path).v = want.linux]_vars

\* the directory and the time format of the override, the file name of the
\* manager
C12_Witness ==
    /\ last.op = "create" /\ last.over /\ last.kind = "ok"
    /\ last.obj.path = <<"/", "v", "/", "a", ".", "U", "0">>

----------------------------------------------------------------------------
(* CacheConfig::new *)

\* CacheConfig::default()
default ==
    CacheConfig(
        <<"%", "t", "e", "m", "p", "%", "/", "R", "u", "s", "t", "/",
          "C", "a", "c", "h", "e">>,
        <<"/", "t", "m", "p", "/", "R", "u", "s", "t", "/",
          "C", "a", "c", "h", "e">>,
        <<"r">> \o NameTok \o <<".">> \o TimeTok
            \o <<".", "c", "a", "c", "h", "e">>,
        <<"%", "Y", "+", "%", "m", "+", "%", "d", "-",
          "%", "H", "+", "%", "M", "+", "%", "S">>)

\* CacheConfig::new(json_config) -> Self: what it returns, and the kind of
\* its result; the function has no error to return
CacheConfig_new(json_config) ==
    LET parsed == from_str(json_config)
    IN  [kind |-> "ok", v |-> IF parsed.ok THEN parsed.v ELSE default]

\* the texts the caller passes to CacheConfig::new
ConfigTexts ==
    {Json(syntax, has, cfg) :
        syntax \in BOOLEAN, has \in SUBSET Fields, cfg \in {CfgA, CfgB, CfgM, CfgO}}

\* Cache::new(CacheConfig::default())
InitConfig ==
    /\ config = default
    /\ objects = [k \in {} |-> NoObject]
    /\ next_id = 1
    /\ files = [p \in {} |-> <<>>]
    /\ dirs = {}
    /\ roDirs = {}
    /\ issued = <<>>
    /\ last = [op |-> "new", text |-> JsonBroken, kind |-> "ok", v |-> default]

\* cache.set_config(CacheConfig::new(text))
NewConfig(text) ==
    LET r == CacheConfig_new(text)
    IN  /\ config' = r.v
        /\ UNCHANGED <<objects, next_id, files, dirs, roDirs, issued>>
        /\ last' = [op |-> "CacheConfig::new", text |-> text, kind |-> r.kind,
                    v |-> r.v]

NextConfig == \E text \in ConfigTexts : NewConfig(text)

SpecConfig == InitConfig /\ [][NextConfig]_vars

\* a text that is a configuration: JSON, with the four fields
ValidConfigText(text) == text.syntax /\ text.has = Fields

\* C14: CacheConfig::new on a text that is not a valid configuration reports
\* an error of kind "config_parse" and does not return the default
\* configuration in its place.
C14_NewReportsConfigParse ==
    (last.op = "CacheConfig::new" /\ ~ValidConfigText(last.text))
        => (last.kind = "config_parse" /\ last.v # default /\ config # default)

----------------------------------------------------------------------------
(* Names: create with names of every kind validate_name tells apart          *)

\* the null byte and another control character
ControlChars == {"NUL", "ESC"}

\* the name of n times the character c
Repeat(c, n) == [i \in 1..n |-> c]

\* names of up to two characters
ShortNames ==
    LET A == {"a", ".", "/", "\\"}
    IN  {<<>>} \cup {<<x>> : x \in A \cup ControlChars}
               \cup {<<x, y>> : x, y \in A} \cup {<<"a", "NUL">>}

\* names at the length limit and beyond it, in characters and in bytes
LongNames ==
    {Repeat("a", MaxNameLen), Repeat("a", MaxNameLen + 1),
     Repeat("e_acute", (MaxNameLen + 1) \div 2),
     Repeat("e_acute", MaxNameLen + 1)}

NameInputs == ShortNames \cup LongNames

InitNames == CacheNew(CfgA)

NextNames ==
    \E name \in NameInputs, time \in Times : create(name, None, HomeDir, time)

SpecNames == InitNames /\ [][NextNames]_vars

\* a name with a path component in it
HasPathPart(name) ==
    \/ Contains(name, <<".", ".">>) \/ Contains(name, <<"/">>)
    \/ Contains(name, <<"\\">>)

HasControl(name) == \E i \in DOMAIN name : name[i] \in ControlChars

\* C15: create with a name that is empty or holds "..", "/", "\" (the path
\* separator is "/") fails with InvalidName and leaves the registry and the
\* id counter as they were.
C15_PathNamesRejected ==
    [][(last'.op = "create" /\ (last'.name = <<>> \/ HasPathPart(last'.name)))
          => /\ last'.kind = "invalid_name"
             /\ objects' = objects
             /\ next_id' = next_id]_vars

C15_Witness ==
    /\ last.op = "create" /\ last.kind = "invalid_name"
    /\ last.name = <<".", ".">>
    /\ Registered # {} /\ next_id = 2

\* C16: create with a name that holds a null byte or another control
\* character fails with InvalidName, and no registered name holds one.
C16_ControlNamesRejected ==
    /\ (last.op = "create" /\ HasControl(last.name)) => last.kind = "invalid_name"
    /\ \A k \in Registered : ~HasControl(k)

\* C17: the limit is 255 characters: create accepts a name that is valid
\* otherwise when it has at most 255 characters, of one byte or of more, and
\* rejects it with InvalidName when it has more.
C17_LimitInCharacters ==
    (last.op = "create" /\ last.name # <<>> /\ ~HasPathPart(last.name)
         /\ ~HasControl(last.name))
        => /\ Len(last.name) <= MaxNameLen => last.kind = "ok"
           /\ Len(last.name) > MaxNameLen => last.kind = "invalid_name"

----------------------------------------------------------------------------
(* The file operations of CacheObject, with texts and bytes                  *)

\* the UTF-8 encoding of each character of the texts
Utf8(c) == IF c = "e_acute" THEN <<195, 169>> ELSE <<97>>

\* str::as_bytes
RECURSIVE as_bytes(_)
as_bytes(s) == IF s = <<>> THEN <<>> ELSE Utf8(Head(s)) \o as_bytes(Tail(s))

\* String::from_utf8: the text of the bytes, or an error when they are not
\* UTF-8
RECURSIVE from_utf8(_)
from_utf8(b) ==
    IF b = <<>> THEN [ok |-> TRUE, v |-> <<>>]
    ELSE IF Head(b) = 97
         THEN LET r == from_utf8(Tail(b))
              IN  [ok |-> r.ok, v |-> <<"a">> \o r.v]
    ELSE IF Len(b) >= 2 /\ SubSeq(b, 1, 2) = <<195, 169>>
         THEN LET r == from_utf8(SubSeq(b, 3, Len(b)))
              IN  [ok |-> r.ok, v |-> <<"e_acute">> \o r.v]
    ELSE [ok |-> FALSE, v |-> <<>>]

\* the texts and the bytes the caller writes
Texts == {<<>>, <<"a">>, <<"e_acute">>, <<"a", "e_acute">>}
Bytes == {<<>>, <<97>>, <<195>>, <<195, 169, 97>>}

\* Path::exists
exists(obj, fs) == obj.path \in DOMAIN fs

\* a read that takes an absent file for an empty one
read_or_empty(obj, fs) ==
    [kind |-> "ok", v |-> IF exists(obj, fs) THEN fs[obj.path] ELSE <<>>]

\* std::fs::read
read(obj, fs) ==
    IF exists(obj, fs) THEN [kind |-> "ok", v |-> fs[obj.path]]
    ELSE [kind |-> "io", v |-> <<>>]

\* std::fs::read_to_string: bytes that are not UTF-8 are an I/O error
read_to_string(obj, fs) ==
    LET r == read(obj, fs)
        t == from_utf8(r.v)
    IN  IF r.kind = "ok" /\ t.ok THEN [kind |-> "ok", v |-> t.v]
        ELSE [kind |-> "io", v |-> <<>>]

\* a length that is 0 for a file that is not there
metadata_len_or_zero(obj, fs) ==
    [kind |-> "ok", v |-> IF exists(obj, fs) THEN Len(fs[obj.path]) ELSE 0]

\* std::fs::metadata(path).map(|m| m.len())
metadata_len(obj, fs) ==
    IF exists(obj, fs) THEN [kind |-> "ok", v |-> Len(fs[obj.path])]
    ELSE [kind |-> "io", v |-> 0]

\* what a call on an object returned: the operation, the object, the
\* argument, the kind of the result and the value
IoRet(op, h, arg, kind, v) ==
    [op |-> op, obj |-> h, arg |-> arg, kind |-> kind, v |-> v]

\* CacheObject::write_string(content)
write_text(h, content) ==
    LET w == write(h, as_bytes(content), files, dirs, roDirs)
    IN  /\ files' = w.files
        /\ UNCHANGED <<config, objects, next_id, dirs, roDirs, issued>>
        /\ last' = IoRet("write_string", h, content, w.kind, <<>>)

\* CacheObject::write_bytes(content)
write_bytes(h, content) ==
    LET w == write(h, content, files, dirs, roDirs)
    IN  /\ files' = w.files
        /\ UNCHANGED <<config, objects, next_id, dirs, roDirs, issued>>
        /\ last' = IoRet("write_bytes", h, content, w.kind, <<>>)

\* CacheObject::get_string
get_string(h) ==
    /\ UNCHANGED <<config, objects, next_id, files, dirs, roDirs, issued>>
    /\ last' = IoRet("get_string", h, <<>>, read_to_string(h, files).kind,
                     read_to_string(h, files).v)

\* CacheObject::get_bytes
get_bytes(h) ==
    /\ UNCHANGED <<config, objects, next_id, files, dirs, roDirs, issued>>
    /\ last' = IoRet("get_bytes", h, <<>>, read(h, files).kind, read(h, files).v)

\* CacheObject::size
size(h) ==
    /\ UNCHANGED <<config, objects, next_id, files, dirs, roDirs, issued>>
    /\ last' = IoRet("size", h, <<>>, metadata_len(h, files).kind,
                     metadata_len(h, files).v)

\* CacheObject::exists
call_exists(h) ==
    /\ UNCHANGED <<config, objects, next_id, files, dirs, roDirs, issued>>
    /\ last' = IoRet("exists", h, <<>>, "ok", exists(h, files))

\* the permission bits of a file: read and write for the owner, the group and
\* the others
OwnerBits == {"ur", "uw"}
OpenMode == OwnerBits \cup {"gr", "gw", "or", "ow"}

\* the umask of the process: 022, 077, 000
Umasks == {{"gw", "ow"}, {"gr", "gw", "or", "ow"}, {}}

\* the mode of a file the process creates: OpenOptions has no mode set, so it
\* is 0o666 without the bits of the umask
CreatedMode(umask) == OpenMode \ umask

\* an open that truncates the file
open_truncate(obj, fs, ds, ro) ==
    IF obj.path \in ds \/ DirOf(obj.path) \notin ds
       \/ (~exists(obj, fs) /\ DirOf(obj.path) \in ro)
    THEN [kind |-> "io", files |-> fs, created |-> FALSE]
    ELSE [kind |-> "ok", created |-> ~exists(obj, fs),
          files |-> [p \in DOMAIN fs \cup {obj.path} |->
                        IF p = obj.path THEN <<>> ELSE fs[p]]]

\* OpenOptions::new().read(true).write(true).create(true).open(path): the
\* file is made, empty, when it is not there, and left as it is when it is
open_create(obj, fs, ds, ro) ==
    IF obj.path \in ds \/ DirOf(obj.path) \notin ds
       \/ (~exists(obj, fs) /\ DirOf(obj.path) \in ro)
    THEN [kind |-> "io", files |-> fs, created |-> FALSE]
    ELSE [kind |-> "ok", created |-> ~exists(obj, fs),
          files |-> [p \in DOMAIN fs \cup {obj.path} |->
                        IF p \in DOMAIN fs THEN fs[p] ELSE <<>>]]

\* CacheObject::get_file; umask is the umask of the process
get_file(h, umask) ==
    LET o == open_create(h, files, dirs, roDirs)
    IN  /\ files' = o.files
        /\ UNCHANGED <<config, objects, next_id, dirs, roDirs, issued>>
        /\ last' = IoRet("get_file", h, <<>>, o.kind,
                         [created |-> o.created,
                          mode |-> IF o.created THEN CreatedMode(umask) ELSE {}])

\* CacheObject::clone
call_clone(h) ==
    /\ UNCHANGED <<config, objects, next_id, files, dirs, roDirs, issued>>
    /\ last' = IoRet("clone", h, <<>>, "ok", clone(h))

\* a cleanup that counts nothing
CountZero(objs) == 0

\* Cache::cleanup, the count it takes before clear: objects.len() as u32
Count(objs) == Cardinality(DOMAIN objs)

\* Cache::cleanup: clear()? and then Ok(count)
cleanup ==
    \E order \in Orders(DOMAIN objects) :
        LET count == Count(objects)
            r == ClearLoop(order, objects, files, roDirs)
        IN  /\ files' = r.files
            /\ objects' = Cleared(objects, r.errs)
            /\ UNCHANGED <<config, next_id, dirs, roDirs, issued>>
            /\ last' = IoRet("cleanup", NoObject, <<>>,
                             IF r.errs # <<>> THEN "generic" ELSE "ok",
                             IF r.errs # <<>> THEN 0 ELSE count)

InitIO == CacheNew(CfgA)

NextIO ==
    \/ \E time \in Times : create(<<"a">>, None, HomeDir, time)
    \/ \E h \in Handles, content \in Texts : write_text(h, content)
    \/ \E h \in Handles, content \in Bytes : write_bytes(h, content)
    \/ \E h \in Handles : get_string(h)
    \/ \E h \in Handles : get_bytes(h)
    \/ \E h \in Handles : size(h)
    \/ \E h \in Handles : call_exists(h)
    \/ \E h \in Handles : call_delete(h)
    \/ \E d \in dirs : EnvChmod(d)
    \/ \E h \in Handles, umask \in Umasks : get_file(h, umask)
    \/ \E h \in Handles : call_clone(h)
    \/ remove(<<"a">>)
    \/ clear
    \/ cleanup

SpecIO == InitIO /\ [][NextIO]_vars

\* the call before this one was a write of the kind w through the same
\* object, and it succeeded
JustWrote(w) ==
    last.op = w /\ last.kind = "ok" /\ last.obj = last'.obj

\* C18: write_string(s) and then get_string() on the same object, nothing
\* in between, returns s; write_bytes(b) and then get_bytes() returns b.
C18_RoundTrip ==
    [][/\ (last'.op = "get_string" /\ JustWrote("write_string"))
              => (last'.kind = "ok" /\ last'.v = last.arg)
       /\ (last'.op = "get_bytes" /\ JustWrote("write_bytes"))
              => (last'.kind = "ok" /\ last'.v = last.arg)]_vars

\* a text with a two-byte character read back over a file that held more
C18_Witness ==
    /\ last.op = "get_string" /\ last.kind = "ok"
    /\ last.v = <<"e_acute">>
    /\ files[last.obj.path] = <<195, 169>>

\* C19: delete on an object whose file is absent succeeds and changes
\* nothing, so a delete that follows a delete that succeeded succeeds too,
\* and after each of them exists() is false.
C19_DeleteIdempotent ==
    [][last'.op = "delete"
          => /\ ~exists(last'.obj, files)
                    => (last'.kind = "ok" /\ files' = files)
             /\ (last.op = "delete" /\ last.kind = "ok" /\ last.obj = last'.obj)
                    => (last'.kind = "ok" /\ files' = files)
             /\ last'.kind = "ok" => ~exists(last'.obj, files')]_vars

\* a second delete, with the directory read-only by then
C19_Witness ==
    /\ last.op = "delete" /\ last.kind = "ok"
    /\ ~exists(last.obj, files)
    /\ last.gone = {}
    /\ DirOf(last.obj.path) \in roDirs

\* C20: size() returns the number of bytes of what was last written to the
\* file when the file is there, and fails with an I/O error when it is not.
C20_SizeIsByteLength ==
    [][last'.op = "size"
          => /\ exists(last'.obj, files)
                    => (last'.kind = "ok" /\ last'.v = Len(files[last'.obj.path]))
             /\ ~exists(last'.obj, files) => last'.kind = "io"
             /\ JustWrote("write_string") => last'.v = ByteLen(last.arg)
             /\ JustWrote("write_bytes") => last'.v = Len(last.arg)]_vars

\* the size of a text of two characters, three bytes
C20_Witness ==
    /\ last.op = "size" /\ last.kind = "ok" /\ last.v = 3
    /\ from_utf8(files[last.obj.path]).v = <<"a", "e_acute">>

\* the call before this one deleted the file of the object of this call
JustDeleted ==
    /\ last.op \in {"delete", "remove", "clear"}
    /\ last'.obj.path \in last.gone

\* C21: get_string and get_bytes on an object whose file is absent fail with
\* an I/O error and leave the filesystem as it was; so they do right after a
\* delete, a remove or a clear that deleted the file.
C21_ReadAbsentIsIo ==
    [][last'.op \in {"get_string", "get_bytes"}
          => /\ ~exists(last'.obj, files)
                    => (last'.kind = "io" /\ files' = files /\ dirs' = dirs)
             /\ JustDeleted => last'.kind = "io"]_vars

\* a read through a handle whose entry was taken out of the registry
C21_Witness ==
    /\ last.op = "get_string" /\ last.kind = "io"
    /\ ~exists(last.obj, files)
    /\ last.obj.name \notin Registered
    /\ files = [p \in {} |-> <<>>]

\* the bytes a write call was given
Written(r) == IF r.op = "write_string" THEN as_bytes(r.arg) ELSE r.arg

\* C22: a write replaces the whole file: after a write that succeeded a
\* read returns exactly what was written and size() is its length, whatever
\* the file held before, more or less; and a write on an absent file, in a
\* directory that takes it, makes the file.
C22_WriteReplacesWhole ==
    [][last'.op \in {"write_string", "write_bytes"}
          => /\ last'.kind = "ok"
                    => /\ exists(last'.obj, files')
                       /\ read(last'.obj, files').v = Written(last')
                       /\ metadata_len(last'.obj, files').v = Len(Written(last'))
                       /\ last'.op = "write_string"
                              => read_to_string(last'.obj, files').v = last'.arg
             /\ (~exists(last'.obj, files)
                     /\ DirOf(last'.obj.path) \in dirs \ roDirs)
                    => (last'.kind = "ok" /\ exists(last'.obj, files'))]_vars

\* the empty text written, through the second handle of the name
C22_Witness ==
    /\ last.op = "write_string" /\ last.kind = "ok" /\ last.arg = <<>>
    /\ files[last.obj.path] = <<>>
    /\ last.obj.id = 2

\* C23: get_file makes the file, empty, when it is absent (the directory
\* taking it) and exists() is true afterwards; when the file is there it
\* opens it and the content stays as it was.
C23_GetFileCreatesOrKeeps ==
    [][last'.op = "get_file"
          => /\ exists(last'.obj, files)
                    => (last'.kind = "ok" /\ files' = files)
             /\ (~exists(last'.obj, files)
                     /\ DirOf(last'.obj.path) \in dirs \ roDirs)
                    => /\ last'.kind = "ok"
                       /\ exists(last'.obj, files')
                       /\ files'[last'.obj.path] = <<>>
                       /\ \A p \in DOMAIN files : files'[p] = files[p]
             /\ last'.kind = "ok" => exists(last'.obj, files')]_vars

\* an open of a file that holds a text
C23_Witness ==
    /\ last.op = "get_file" /\ last.kind = "ok" /\ ~last.v.created
    /\ files[last.obj.path] = <<97, 195, 169>>

----------------------------------------------------------------------------
(* The identity of an object: the operations on one name of the manager and  *)
(* on its handles, with the configuration changing                           *)

InitIdentity == CacheNew(CfgA)

NextIdentity ==
    \/ \E time \in Times : create(<<"a">>, None, HomeDir, time)
    \/ \E c \in Configs : set_config(c)
    \/ remove(<<"a">>)
    \/ clear
    \/ \E h \in Handles : write_bytes(h, <<97>>)
    \/ \E h \in Handles : get_bytes(h)
    \/ \E h \in Handles : call_clone(h)
    \/ \E h \in Handles : call_delete(h)

SpecIdentity == InitIdentity /\ [][NextIdentity]_vars

\* C24: the name, the id and the path of a CacheObject stay as they were
\* made: every step leaves every handle handed out as it was, and every
\* registry entry that is still the same entry (the same id under the same
\* name) with its name and its path.
C24_IdentityFixed ==
    [][/\ \A i \in DOMAIN issued :
             i \in DOMAIN issued' /\ issued'[i] = issued[i]
       /\ \A k \in DOMAIN objects \cap DOMAIN objects' :
             objects'[k].id = objects[k].id
                 => /\ objects'[k].name = objects[k].name
                    /\ objects'[k].path = objects[k].path
       /\ last'.op \in {"get_bytes", "clone", "write_bytes", "delete"}
              => /\ last'.obj \in Handles
                 /\ objects' = objects]_vars

\* set_config has changed the directory and the name has an entry made
\* before it, at the old path
C24_Witness ==
    /\ last.op = "set_config"
    /\ config = CfgB
    /\ <<"a">> \in Registered
    /\ objects[<<"a">>].path = <<"/", "t", "/", "a", ".", "c">>
    /\ \E h \in Handles : h.path = <<"/", "u", "/", "k", "1">>

\* C25 as stated: for every handle create has returned, while its name is
\* registered, get of the name has the id and the path of the handle.
C25_EveryHandleIsTheEntry ==
    \A h \in Handles :
        h.name \in Registered
            => /\ Lookup(objects, h.name).obj.id = h.id
               /\ Lookup(objects, h.name).obj.path = h.path

\* C25 as amended: while a name is registered, the handle the most recent
\* successful create of that name returned and the entry are the same
\* object; a handle an earlier create of the name returned has another id
\* than the entry.
C25_LatestHandleIsTheEntry ==
    \A h \in Handles :
        h.name \in Registered
            => IF h = Latest(h.name)
               THEN /\ objects[h.name] = h
                    /\ Lookup(objects, h.name).obj.id = h.id
                    /\ Lookup(objects, h.name).obj.path = h.path
               ELSE objects[h.name].id # h.id

\* two handles of one name, the entry being the later one
C25_Witness ==
    \E h1, h2 \in Handles :
        /\ h1.name = h2.name /\ h1.id < h2.id
        /\ h1.name \in Registered
        /\ objects[h1.name] = h2
        /\ h1.path # h2.path

\* C26: a clone has the name, id, path and creation time of its original
\* and no file of its own: what is written through an object is what its
\* clone reads (the registry entry is such a clone of the handle), and after
\* a delete through an object exists() is false for the clone as well.
C26_CloneSharesFile ==
    [][/\ last'.op = "clone"
              => /\ last'.v.name = last'.obj.name
                 /\ last'.v.id = last'.obj.id
                 /\ last'.v.path = last'.obj.path
                 /\ last'.v.created_at = last'.obj.created_at
                 /\ files' = files
                 /\ exists(last'.v, files') <=> exists(last'.obj, files')
                 /\ read(last'.v, files') = read(last'.obj, files')
       /\ (last'.op \in {"write_string", "write_bytes"} /\ last'.kind = "ok")
              => /\ read(clone(last'.obj), files').v = Written(last')
                 /\ \A k \in DOMAIN objects' :
                       objects'[k].id = last'.obj.id
                           => read(objects'[k], files').v = Written(last')
       /\ (last'.op = "delete" /\ last'.kind = "ok")
              => /\ ~exists(clone(last'.obj), files')
                 /\ \A k \in DOMAIN objects' :
                       objects'[k].id = last'.obj.id
                           => ~exists(objects'[k], files')]_vars

\* the clone of an object whose file holds a text
C26_Witness ==
    /\ last.op = "clone"
    /\ last.v.id = last.obj.id /\ last.v.path = last.obj.path
    /\ exists(last.v, files)
    /\ read_to_string(last.v, files).v = <<"e_acute">>

\* C27: in every state each registry entry is stored under its own name, and
\* no two registry entries have the same id.
C27_KeysAreNamesIdsDistinct ==
    \A k \in Registered :
        /\ objects[k].name = k
        /\ \A j \in Registered \ {k} : objects[j].id # objects[k].id

\* two entries, under their names, with the two ids handed out
C27_Witness ==
    /\ Cardinality(Registered) = 2
    /\ \A k \in Registered : objects[k].name = k
    /\ {objects[k].id : k \in Registered} = {1, 2}

\* C28: cleanup always returns Ok(0), whatever the number of registered
\* objects, and leaves the registry empty.
C28_CleanupReturnsZero ==
    last.op = "cleanup"
        => (last.kind = "ok" /\ last.v = 0 /\ Registered = {})

----------------------------------------------------------------------------
(* Cache::set_config and Cache::get_config                                   *)

\* a get_config that returns the default configuration
get_config_default(cfg) == default

\* Cache::get_config: self.config.clone()
get_config(cfg) ==
    CacheConfig(cfg.windows, cfg.linux, cfg.filename, cfg.time)

call_get_config ==
    /\ UNCHANGED <<config, objects, next_id, files, dirs, roDirs, issued>>
    /\ last' = IoRet("get_config", NoObject, <<>>, "ok", get_config(config))

\* the configurations the caller passes to set_config
SetConfigs == Configs \cup {CfgM}

NextSetConfig ==
    \/ \E c \in SetConfigs : set_config(c)
    \/ call_get_config
    \/ \E name \in MergeNames, time \in Times : create(name, None, HomeDir, time)

SpecSetConfig == Init /\ [][NextSetConfig]_vars

\* C29: get_config returns the configuration the manager holds, which is the
\* one given to new or to the most recent set_config; set_config(c) makes c
\* the configuration and leaves the registry entries, the id counter and the
\* files as they were; get_config changes nothing.
C29_ConfigGetSet ==
    [][/\ last'.op = "set_config"
              => /\ \A c \in SetConfigs :
                        set_config(c) => (config' = c /\ get_config(config') = c)
                 /\ objects' = objects /\ next_id' = next_id
                 /\ files' = files /\ dirs' = dirs /\ issued' = issued
       /\ last'.op = "get_config"
              => /\ last'.v = config
                 /\ config' = config /\ objects' = objects /\ next_id' = next_id
                 /\ last.op = "new" => last'.v \in Configs]_vars

\* the configuration set_config was given, read back with objects registered
C29_Witness ==
    /\ last.op = "get_config" /\ last.v = CfgM
    /\ Cardinality(Registered) = 2
    /\ next_id = 3

\* C30: a backing file made through the library has permissions for its
\* owner only: no bit for the group or for the others.
C30_FilesOwnerOnly ==
    (last.op = "get_file" /\ last.kind = "ok" /\ last.v.created)
        => last.v.mode \subseteq OwnerBits

----------------------------------------------------------------------------
(* The file name template: create with templates made of the three          *)
(* placeholders, an unknown one and plain text, for plain names and for      *)
(* names that hold placeholder text                                          *)

CacheSuffix == <<".", "c", "a", "c", "h", "e">>

\* the configuration of the manager: the template of the documentation
CfgT == CacheConfig(<<"W">>, <<"/", "t">>, NameTok \o CacheSuffix,
                    <<"T", "%", "s">>)

\* a placeholder create knows nothing of
UnknownTok == <<"{", "x", "}">>

\* the templates the overrides carry: one or two pieces
Pieces == {NameTok, IdTok, TimeTok, UnknownTok, <<"-">>}
Templates == Pieces \cup {p \o q : p, q \in Pieces}

\* the overrides: none, a text that is not JSON, or one that sets the template
TemplateOverrides ==
    {None, Some(JsonBroken)}
        \cup {Some(Json(TRUE, Fields, CacheConfig(<<>>, <<>>, t, <<>>))) :
                 t \in Templates}

\* the names: plain ones, and valid names that hold "{id}" or "{time}"
TemplateNames == {<<"a">>, <<"i", "d">>, IdTok, <<"a">> \o TimeTok}

\* Cache::new(CfgT)
InitTemplate == CacheNew(CfgT)

\* the caller creates until a create has succeeded
NextTemplate ==
    /\ issued = <<>>
    /\ \E name \in TemplateNames, custom \in TemplateOverrides, time \in Times :
           create(name, custom, HomeDir, time)

SpecTemplate == InitTemplate /\ [][NextTemplate]_vars

\* the template read as the claim reads it: one pass over the template, each
\* of the three placeholders met gives its value, any other character is kept
RECURSIVE Subst(_, _, _, _)
Subst(t, name, id, time) ==
    LET Starts(tok) == Len(t) >= Len(tok) /\ SubSeq(t, 1, Len(tok)) = tok
        Rest(tok) == SubSeq(t, Len(tok) + 1, Len(t))
    IN  IF t = <<>> THEN <<>>
        ELSE IF Starts(NameTok) THEN name \o Subst(Rest(NameTok), name, id, time)
        ELSE IF Starts(IdTok) THEN id \o Subst(Rest(IdTok), name, id, time)
        ELSE IF Starts(TimeTok) THEN time \o Subst(Rest(TimeTok), name, id, time)
        ELSE <<Head(t)>> \o Subst(Tail(t), name, id, time)

\* a name without braces
Braceless(name) == \A i \in DOMAIN name : name[i] \notin {"{", "}"}

\* C31: a create that succeeds for a name without braces returns the path
\* whose file name is the merged template with every {name} replaced by the
\* name, every {id} by the decimal id of this create, every {time} by the
\* formatted creation time, and everything else, other placeholders
\* included, as it stands in the template.
C31_FilenameFromTemplate ==
    [][(last'.op = "create" /\ last'.kind = "ok" /\ Braceless(last'.name))
          => \A custom \in TemplateOverrides \ {Some(JsonBroken)}, time \in Times :
                create(last'.name, custom, HomeDir, time)
                => LET merged == IF custom.some THEN Merge(config, custom.v.cfg)
                                 ELSE config
                   IN  last'.obj.path =
                           Join(merged.linux,
                                Subst(merged.filename, last'.name,
                                      ToDecimal(next_id),
                                      <<"T">> \o ToDecimal(time)))]_vars

\* the second call of create, with template "{id}{id}": the id twice
C31_Witness ==
    /\ last.op = "create" /\ last.kind = "ok" /\ last.name = <<"a">>
    /\ last.obj.path = <<"/", "t", "/", "2", "2">>

\* C39: a create without override under template "{name}.cache" that
\* succeeds for a name holding the text "{id}" or "{time}" returns the path
\* whose file name is that name, braces and all, followed by ".cache".
C39_NameVerbatim ==
    (/\ last.op = "create" /\ last.kind = "ok" /\ ~last.over
     /\ config.filename = NameTok \o CacheSuffix
     /\ (Contains(last.name, IdTok) \/ Contains(last.name, TimeTok)))
        => last.obj.path = Join(config.linux, last.name \o CacheSuffix)

----------------------------------------------------------------------------
(* Paths: two names under one configuration whose template is the name      *)
(* followed by the time                                                      *)

\* the configuration of the manager
CfgP == CacheConfig(<<"W">>, <<"/", "t">>, NameTok \o TimeTok, <<"%", "s">>)

PathNames == {<<"a">>, <<"a", "1">>}

\* what SystemTime::now() returns, in seconds
PathTimes == {0, 10}

\* Cache::new(CfgP)
InitPaths == CacheNew(CfgP)

NextPaths ==
    \/ \E name \in PathNames, time \in PathTimes : create(name, None, HomeDir, time)
    \/ \E name \in PathNames : remove(name)
    \/ \E h \in Handles : write_bytes(h, <<97>>)

SpecPaths == InitPaths /\ [][NextPaths]_vars

\* C32: remove of a name that is not registered returns Ok and leaves the
\* registry, the id counter and every file as they were.
C32_RemoveUnregistered ==
    [][\A name \in PathNames :
          (name \notin DOMAIN objects /\ remove(name))
          => (/\ last'.kind = "ok"
              /\ objects' = objects
              /\ next_id' = next_id
              /\ files' = files)]_vars

\* remove of a name that is not registered while another name is, with its
\* file written
C32_Witness ==
    /\ last.op = "remove" /\ ~last.was /\ last.kind = "ok"
    /\ \E k \in DOMAIN objects : objects[k].path \in DOMAIN files

\* C35: under the one configuration of the manager, whose template holds
\* {name}, no two names of the registry have the same path.
C35_DistinctPaths ==
    Contains(config.filename, NameTok)
        => \A j, k \in DOMAIN objects :
               j # k => objects[j].path # objects[k].path

\* C36: remove(a) leaves the file of every other registered object as it
\* was: there or not, and with the same content.
C36_RemoveTouchesOwnFileOnly ==
    [][\A a \in PathNames :
          remove(a)
          => \A b \in DOMAIN objects \ {a} :
                 /\ exists(objects[b], files') = exists(objects[b], files)
                 /\ exists(objects[b], files)
                        => files'[objects[b].path] = files[objects[b].path]]_vars

----------------------------------------------------------------------------
(* Cache::len, Cache::is_empty, Cache::iter *)

\* a length that counts the objects create has returned, never going down
len_of_issued(objs) == Len(issued)

\* self.objects.len()
len(objs) == Cardinality(DOMAIN objs)

\* self.objects.is_empty()
is_empty(objs) == DOMAIN objs = {}

\* self.objects.values(): the sequences the iterator may yield, the order
\* being the HashMap's
iter(objs) ==
    {[i \in 1..Cardinality(DOMAIN objs) |-> objs[o[i]]] : o \in Orders(DOMAIN objs)}

\* C33: in every state len() is the number of names get() finds, is_empty()
\* is the same as len() = 0, and whatever order iter() takes, it yields
\* len() objects, each of them the object of a registered name, and the
\* object of each registered name once.
C33_LenEmptyIter ==
    /\ len(objects) = Cardinality({n \in Names : Lookup(objects, n).kind = "ok"})
    /\ is_empty(objects) <=> (len(objects) = 0)
    /\ \A s \in iter(objects) :
          /\ Len(s) = len(objects)
          /\ \A i \in DOMAIN s : \E k \in Registered : s[i] = objects[k]
          /\ \A k \in Registered :
                Cardinality({i \in DOMAIN s : s[i] = objects[k]}) = 1

\* two names registered, then one of them removed: one object left of the
\* two that were created
C33_Witness ==
    /\ last.op = "remove" /\ last.was
    /\ len(objects) = 1 /\ Len(issued) = 2 /\ ~is_empty(objects)

----------------------------------------------------------------------------
(* Cache::create, the order of its checks *)

\* C34: a create with an invalid name and an override that is malformed
\* fails with InvalidName, not ConfigParse, and leaves the registry, the id
\* counter, the files and the directories as they were.
C34_NameCheckedFirst ==
    [][(last'.op = "create" /\ last'.over /\ validate_name(last'.name) # "ok")
          => \A custom \in {c \in Overrides : Malformed(c)}, time \in Times :
                create(last'.name, custom, HomeDir, time)
                => (/\ last'.kind = "invalid_name"
                    /\ objects' = objects
                    /\ next_id' = next_id
                    /\ files' = files
                    /\ dirs' = dirs)]_vars

\* a create with an invalid name and an override, after an earlier create has
\* registered an object
C34_Witness ==
    /\ last.op = "create" /\ last.over /\ last.kind = "invalid_name"
    /\ validate_name(last.name) # "ok"
    /\ objects # [k \in {} |-> NoObject]
    /\ next_id > 1

----------------------------------------------------------------------------
(* The reach of an override: creates with and without override, and          *)
(* get_config between them                                                   *)

\* the overrides: none, a text that is not JSON, a directory that cannot be
\* made, every field, the file name template only
ReachOverrides ==
    {None, Some(JsonBroken), Some(JsonNoDir), Some(Json(TRUE, Fields, CfgO)),
     Some(Json(TRUE, Fields, CacheConfig(<<>>, <<>>, CfgO.filename, <<>>)))}

\* Cache::new(CfgM)
InitReach == CacheNew(CfgM)

NextReach ==
    \/ \E name \in MergeNames, custom \in ReachOverrides, time \in Times :
           create(name, custom, HomeDir, time)
    \/ call_get_config

SpecReach == InitReach /\ [][NextReach]_vars

\* C38: after a create, with whatever override and whatever its result,
\* get_config returns what it returned before the call; a create without
\* override that succeeds returns the path built from the configuration
\* given to new, whatever overrides earlier creates had; and get_config
\* always returns that configuration.
C38_OverrideForOneCall ==
    [][/\ last'.op = "create"
              => \A custom \in ReachOverrides, time \in Times :
                    create(last'.name, custom, HomeDir, time)
                    => /\ get_config(config') = get_config(config)
                       /\ (~custom.some /\ last'.kind = "ok")
                              => last'.obj.path =
                                     FullPath(CfgM, last'.name, next_id,
                                              HomeDir, time)
       /\ last'.op = "get_config" => last'.v = CfgM]_vars

\* a create without override after a create whose override set the directory
\* has succeeded: the second object is in the directory of the manager
C38_Witness ==
    /\ last.op = "create" /\ ~last.over /\ last.kind = "ok"
    /\ Len(issued) = 2 /\ last.obj = issued[2]
    /\ DirOf(issued[1].path) = CfgO.linux
    /\ DirOf(last.obj.path) = CfgM.linux

----------------------------------------------------------------------------
(* CacheObject::delete on two threads: a handle and its clone, both bound    *)
(* to one path, each thread calling delete; the test of the path and the     *)
(* removal of the file are two steps of a thread                             *)

Threads == {1, 2}

\* the handle of the threads: what create("a", None) returned, and its clone
SharedHandle == CacheObject(<<"a">>, <<"/", "t", "/", "a", ".", "c">>, 1, 0)

\* Where the threads are.  pc: "call" before the test of the path,
\* "remove_file" between the test and the removal, "returned" after the
\* return; kind: what the thread's most recent delete returned
Positions(pc, kind) == [op |-> "threads", pc |-> pc, kind |-> kind]

\* the state after Cache::new(CfgA), h = create("a", None), h.write_bytes,
\* h.clone(), the two threads about to call delete
InitDelete ==
    /\ config = CfgA
    /\ objects = [k \in {<<"a">>} |-> SharedHandle]
    /\ next_id = 2
    /\ files = [p \in {SharedHandle.path} |-> <<97>>]
    /\ dirs = {<<"/", "t">>}
    /\ roDirs = {}
    /\ issued = <<SharedHandle>>
    /\ last = Positions([t \in Threads |-> "call"], [t \in Threads |-> "none"])

\* if self.path.exists()
delete_exists(t) ==
    /\ last.pc[t] = "call"
    /\ IF exists(SharedHandle, files)
       THEN last' = Positions([last.pc EXCEPT ![t] = "remove_file"], last.kind)
       ELSE last' = Positions([last.pc EXCEPT ![t] = "returned"],
                              [last.kind EXCEPT ![t] = "ok"])
    /\ UNCHANGED <<config, objects, next_id, files, dirs, roDirs, issued>>

\* std::fs::remove_file(&self.path).map_err(CacheError::Io)?; Ok(()):
\* remove_file fails with NotFound on a path that is not there
delete_remove_file(t) ==
    /\ last.pc[t] = "remove_file"
    /\ IF exists(SharedHandle, files) /\ CanRemoveFile(SharedHandle.path, roDirs)
       THEN /\ files' = [p \in DOMAIN files \ {SharedHandle.path} |-> files[p]]
            /\ last' = Positions([last.pc EXCEPT ![t] = "returned"],
                                 [last.kind EXCEPT ![t] = "ok"])
       ELSE /\ files' = files
            /\ last' = Positions([last.pc EXCEPT ![t] = "returned"],
                                 [last.kind EXCEPT ![t] = "io"])
    /\ UNCHANGED <<config, objects, next_id, dirs, roDirs, issued>>

\* the thread calls delete once more
delete_again(t) ==
    /\ last.pc[t] = "returned"
    /\ last' = Positions([last.pc EXCEPT ![t] = "call"], last.kind)
    /\ UNCHANGED <<config, objects, next_id, files, dirs, roDirs, issued>>

\* write_bytes on the handle, between two steps of the threads
thread_write(content) ==
    /\ files' = write(SharedHandle, content, files, dirs, roDirs).files
    /\ UNCHANGED <<config, objects, next_id, dirs, roDirs, issued, last>>

NextDelete ==
    \/ \E t \in Threads : delete_exists(t)
    \/ \E t \in Threads : delete_remove_file(t)
    \/ \E t \in Threads : delete_again(t)
    \/ \E content \in Bytes : thread_write(content)

SpecDelete == InitDelete /\ [][NextDelete]_vars

\* C37: whatever the interleaving of the two deletes, no delete returns an
\* error.
C37_ConcurrentDeletesSucceed ==
    last.op = "threads" => \A t \in Threads : last.kind[t] # "io"

----------------------------------------------------------------------------
(* The id counter at the end of the u32 range *)

\* u32::MAX, 2^32 - 1, as the integer with the same 32 bits
U32Max == -1

\* a < b on u32 values held as the integers with the same bits: the negative
\* ones are the values from 2^31 on
ULess(a, b) == IF (a < 0) = (b < 0) THEN a < b ELSE b < 0

WrapNames == {<<"a">>, <<"b">>}

\* the manager of Cache::new(CfgB) after 2^32 - 3 calls of create whose
\* override was not JSON: each took an id and registered nothing, the next id
\* is 2^32 - 2
InitWrap ==
    /\ config = CfgB
    /\ objects = [k \in {} |-> NoObject]
    /\ next_id = U32Max - 1
    /\ files = [p \in {} |-> <<>>]
    /\ dirs = {}
    /\ roDirs = {}
    /\ issued = <<>>
    /\ last = [op |-> "new", name |-> <<>>, over |-> FALSE, kind |-> "ok",
               obj |-> NoObject, errs |-> <<>>, was |-> FALSE, len |-> 0,
               gone |-> {}]

\* create in a build with overflow checks (debug-assertions): at
\* next_id = u32::MAX, `self.next_id += 1` panics with "attempt to add with
\* overflow", after the name has been checked and before anything else is
\* done; the counter keeps its value
create_overflow_panic(name, custom) ==
    /\ validate_name(name) = "ok"
    /\ next_id = U32Max
    /\ UNCHANGED <<config, objects, next_id, files, dirs, roDirs, issued>>
    /\ last' = Ret("create", name, custom.some, "panic", NoObject, <<>>)

\* At u32::MAX the two builds part: the one without overflow checks (release)
\* wraps, which is create with Increment; the one with overflow checks
\* panics, and nothing is called after a panic.
NextWrap ==
    /\ last.kind # "panic"
    /\ \/ \E name \in WrapNames, time \in Times : create(name, None, HomeDir, time)
       \/ \E name \in WrapNames : create_overflow_panic(name, None)
       \/ \E name \in WrapNames : remove(name)

SpecWrap == InitWrap /\ [][NextWrap]_vars

\* C40: once the id 2^32 - 1 has been issued, the ids create has returned
\* are still increasing in the order of the calls: no later create returns an
\* id that is not greater than an earlier one.
C40_NoWrapAtLimit ==
    (\E i \in DOMAIN issued : issued[i].id = U32Max)
        => \A i, j \in DOMAIN issued :
               i < j => ULess(issued[i].id, issued[j].id)

====
